---- MODULE Spec2Model ----
(***************************************************************************)
(* WebScraper (src/modules/webscraping.py): one scraper object on which    *)
(* scrape() is invoked repeatedly against the same post store.             *)
(*                                                                         *)
(* Text is modelled by what the code reads of it.  A line is a record      *)
(*   [id, len, pad, has]                                                   *)
(* id  : the characters of the line once stripped,                         *)
(* len : the number of characters of the stripped line,                    *)
(* pad : the number of leading blanks line.strip() removes,                *)
(* has : the substring/prefix tests of the code that the line passes.      *)
(* An element text is a sequence of lines (the text split at "\n").        *)
(***************************************************************************)
EXTENDS Integers, Sequences, FiniteSets, TLC

(* ------------------------------ bounds -------------------------------- *)
\* failures of the page or the store that one extraction pass meets
MaxFaults == 1
\* elements a selector returns
MaxElements == 3
\* iterations of the scroll loop the page keeps moving or offering controls
MaxScrollSteps == 3
\* scroll positions 0..MaxTop
MaxTop == 1
\* elements the generic query returns in the study of the selectors
MaxDivs == 12
\* lines of a block in the study of the metadata parser
MaxLines == 6
\* lines of a block in the study of the formatter
MaxFormatLines == 3
\* posts the feed lists
MaxFeed == 2
\* iterations of the scroll loop that find the position changed (loader study)
MaxMoves == 2

(* ------------------------- program constants --------------------------- *)
MinTextLen == 50
MinContentLines == 3
TitleScanLines == 5
TitleMinLen == 20
TitleMaxLen == 100
HeadingMinLen == 20
HeadingMaxLen == 150
max_attempts == 5
FallbackScan == 50
FallbackMinLen == 100
FallbackMaxLen == 5000
FallbackCap == 10

(* ------------------------------ lines ---------------------------------- *)
Ln(id, len, pad, has) == [id |-> id, len |-> len, pad |-> pad, has |-> has]

L_title == Ln("Hiring interns at Acme Corp campus", 34, 0, {"title_kw"})
L_author == Ln("Placement Team", 14, 0, {"title_kw", "author"})
L_author_padded == Ln("Placement Team", 14, 2, {"title_kw", "author"})
L_time == Ln("2 days ago", 10, 0, {"time"})
L_link == Ln("Apply now http://example.com/apply", 34, 0, {"http"})
L_deadline == Ln("Deadline for hiring applications: 5 June", 40, 0, {"title_kw", "deadline"})
L_plain == Ln("Stipend 20000 per month", 23, 0, {})
L_seeless == Ln("See Less", 8, 0, {"see_less"})
L_dot == Ln("<middot>", 1, 0, {"middot"})
L_marker == Ln("=== Content Block 1 ===", 23, 0, {"===", "Content Block"})
L_blank == Ln("", 0, 0, {})
L_title_long ==
    Ln("Campus connect webinar and hackathon: registrations are open for all branches of the final and pre-final year batch", 115, 0,
       {"title_kw"})
L_title_wide ==
    Ln("Internship drive for the graduating batch: the company visits the campus on Monday, shortlisted students report to the seminar hall with their documents", 152, 0,
       {"title_kw"})
L_due == Ln("Deadline: 5 June", 16, 0, {"deadline"})
L_due_link == Ln("Deadline on www.acme.com/apply", 30, 0, {"deadline", "http"})
L_section == Ln("Eligibility", 11, 0, {"section"})
L_section_bullet == Ln("- Selection process", 19, 0, {"section", "bullet"})
L_bullet == Ln("- Bring your laptop", 19, 0, {"bullet"})
L_bullet_link == Ln("- see www.acme.com", 18, 0, {"bullet", "http"})

(* --------------------------- element texts ----------------------------- *)
\* a post of four meaningful lines
B_post == <<L_title, L_author, L_time, L_link>>
\* the same post behind five separator glyphs and expanded: other raw text,
\* other title, same formatted content
B_post_shifted ==
    <<L_dot, L_dot, L_dot, L_dot, L_dot, L_title, L_author_padded, L_time, L_link, L_seeless>>
\* another post
B_other == <<L_deadline, L_plain, L_time, L_blank, L_plain>>
\* more than 50 characters, but two meaningful lines
B_short == <<L_title, L_marker, L_blank, L_plain>>
\* 50 characters exactly
B_tiny == <<L_deadline, L_blank, L_seeless>>

\* a post of more than 100 characters
B_long == <<L_title, L_author, L_time, L_link, L_plain>>

Blocks == {B_post, B_post_shifted, B_other, B_short, B_tiny}

RECURSIVE SeqsUpTo(_, _)
SeqsUpTo(S, n) ==
    IF n = 0 THEN {<<>>}
    ELSE LET shorter == SeqsUpTo(S, n - 1)
         IN  shorter \cup {Append(s, x) : s \in {t \in shorter : Len(t) = n - 1}, x \in S}

\* what a selector can return: element texts in document order
Pages == SeqsUpTo(Blocks, MaxElements)

(* --------------------------- string functions -------------------------- *)
Min(a, b) == IF a < b THEN a ELSE b

\* line.strip()
strip(line) == [line EXCEPT !.pad = 0]

\* line[:n]
prefix(line, n) == [line EXCEPT !.len = Min(line.len, n)]

RECURSIVE DropBlankHead(_)
DropBlankHead(text) ==
    IF text = <<>> THEN <<>>
    ELSE IF Head(text).len = 0 THEN DropBlankHead(Tail(text))
    ELSE <<strip(Head(text))>> \o Tail(text)

RECURSIVE DropBlankTail(_)
DropBlankTail(text) ==
    IF text = <<>> THEN <<>>
    ELSE IF text[Len(text)].len = 0 THEN DropBlankTail(SubSeq(text, 1, Len(text) - 1))
    ELSE text

\* element.text.strip(): leading and trailing white space goes
strip_text(text) == DropBlankTail(DropBlankHead(text))

RECURSIVE SumChars(_)
SumChars(text) ==
    IF text = <<>> THEN 0
    ELSE Head(text).len + Head(text).pad + SumChars(Tail(text))

\* len(element_text): the characters of the lines and the newlines between
text_len(text) == IF text = <<>> THEN 0 ELSE SumChars(text) + Len(text) - 1

(* ------------------------ MetadataParser ------------------------------- *)
RECURSIVE FirstWhere(_, _, _, _)
\* the first line of lines that contains what is looked for and is longer
\* than min_len, or dflt
FirstWhere(lines, what, min_len, dflt) ==
    IF lines = <<>> THEN dflt
    ELSE IF what \in Head(lines).has /\ Head(lines).len > min_len THEN Head(lines)
    ELSE FirstWhere(Tail(lines), what, min_len, dflt)

UntitledPost == Ln("Untitled Post", 13, 0, {})
EmptyString == Ln("", 0, 0, {})

\* variant: the title is looked for in every line
extract_post_metadata_from_raw_all_lines(content_lines) ==
    LET hit == FirstWhere(content_lines, "title_kw", TitleMinLen, UntitledPost)
    IN  [title |-> IF hit = UntitledPost THEN UntitledPost ELSE prefix(hit, TitleMaxLen),
         author |-> strip(FirstWhere(content_lines, "author", 0, EmptyString)),
         posted_time |-> strip(FirstWhere(content_lines, "time", 0, EmptyString))]

\* lines 483-540
extract_post_metadata_from_raw(content_lines) ==
    LET head == SubSeq(content_lines, 1, Min(TitleScanLines, Len(content_lines)))
        hit == FirstWhere(head, "title_kw", TitleMinLen, UntitledPost)
    IN  [title |-> IF hit = UntitledPost THEN UntitledPost ELSE prefix(hit, TitleMaxLen),
         author |-> strip(FirstWhere(content_lines, "author", 0, EmptyString)),
         posted_time |-> strip(FirstWhere(content_lines, "time", 0, EmptyString))]

(* ------------------------ ContentFormatter ----------------------------- *)
is_title_line_simple(line) ==
    /\ "title_kw" \in line.has
    /\ line.len > HeadingMinLen
    /\ line.len < HeadingMaxLen

\* an emitted line: f"{pre}{line}{post}"
Emit(pre, line, post) == [pre |-> pre, line |-> line, post |-> post]

\* variant: the deadline test comes before the title test
format_line_deadline_first(raw) ==
    LET line == strip(raw)
    IN  IF line.len = 0 THEN <<>>
        ELSE IF "see_less" \in line.has THEN <<>>
        ELSE IF "middot" \in line.has THEN <<>>
        ELSE IF "deadline" \in line.has THEN <<Emit("(!) DEADLINE: ", line, "")>>
        ELSE IF is_title_line_simple(line) THEN <<Emit("## ", line, "")>>
        ELSE IF "section" \in line.has THEN <<Emit("**", line, ":**")>>
        ELSE IF "bullet" \in line.has THEN <<Emit("", line, "")>>
        ELSE IF "http" \in line.has THEN <<Emit("(link) ", line, "")>>
        ELSE <<Emit("", line, "")>>

\* lines 546-575: the lines one input line adds to formatted_lines
format_line(raw) ==
    LET line == strip(raw)
    IN  IF line.len = 0 THEN <<>>
        ELSE IF "see_less" \in line.has THEN <<>>
        ELSE IF "middot" \in line.has THEN <<>>
        ELSE IF is_title_line_simple(line) THEN <<Emit("## ", line, "")>>
        ELSE IF "deadline" \in line.has THEN <<Emit("(!) DEADLINE: ", line, "")>>
        ELSE IF "section" \in line.has THEN <<Emit("**", line, ":**")>>
        ELSE IF "bullet" \in line.has THEN <<Emit("", line, "")>>
        ELSE IF "http" \in line.has THEN <<Emit("(link) ", line, "")>>
        ELSE <<Emit("", line, "")>>

RECURSIVE create_basic_formatted_content(_)
create_basic_formatted_content(content_lines) ==
    IF content_lines = <<>> THEN <<>>
    ELSE format_line(Head(content_lines))
             \o create_basic_formatted_content(Tail(content_lines))

(* ----------------------------- post store ------------------------------ *)
\* db_manager.create_post_hash: a digest, one per formatted content
create_post_hash(content) == [digest_of |-> content]

\* db_manager.post_exists
post_exists(posts, content_hash) ==
    \E k \in 1..Len(posts) : posts[k].content_hash = content_hash

\* db_manager.save_post, when it succeeds
save_post(posts, title, content, raw_content, author, posted_time) ==
    Append(posts, [title |-> title, content |-> content, raw_content |-> raw_content,
                   author |-> author, posted_time |-> posted_time,
                   content_hash |-> create_post_hash(content)])

\* what the store calls of one process_single_post meet: all answer, or the
\* first to fail is the digest (raises), the existence check (raises) or the
\* save (reports failure, or raises); no call follows a failed one
StoreWeather == {"ok", "hash_raises", "exists_raises", "save_fails", "save_raises"}

(* ------------------------ process_single_post -------------------------- *)
RECURSIVE split_content_lines_keep_markers(_)
\* variant: block marker lines are kept
split_content_lines_keep_markers(lines) ==
    IF lines = <<>> THEN <<>>
    ELSE LET line == Head(lines)
             rest == split_content_lines_keep_markers(Tail(lines))
         IN  IF line.len > 0 THEN <<strip(line)>> \o rest ELSE rest

RECURSIVE split_content_lines(_)
\* lines 666-673: the stripped lines that are neither block markers nor blank
split_content_lines(lines) ==
    IF lines = <<>> THEN <<>>
    ELSE LET line == Head(lines)
             rest == split_content_lines(Tail(lines))
         IN  IF "===" \in line.has /\ "Content Block" \in line.has THEN rest
             ELSE IF line.len > 0 THEN <<strip(line)>> \o rest
             ELSE rest

Call(op, hash, reply) == [op |-> op, hash |-> hash, reply |-> reply]

\* the result, the posts of the store afterwards and the store calls issued
Outcome(result, posts, calls) == [result |-> result, posts |-> posts, calls |-> calls]

\* what the extraction pass records of an element it has iterated over
Logged(result, calls) == [result |-> result, calls |-> calls]

RECURSIVE faults(_)
\* the elements of the pass that met a failure
faults(log) ==
    IF log = <<>> THEN 0
    ELSE (IF Head(log).result \in {"no_text", "error"} THEN 1 ELSE 0) + faults(Tail(log))


\* variant: saves without asking the store whether the hash exists
process_single_post_unchecked(content_text, posts, w) ==
    LET content_lines == split_content_lines(content_text)
        meta == extract_post_metadata_from_raw(content_lines)
        formatted_content == create_basic_formatted_content(content_lines)
        content_hash == create_post_hash(formatted_content)
        saving(reply) == <<Call("save_post", content_hash, reply)>>
    IN  IF Len(content_lines) < MinContentLines THEN Outcome("skipped", posts, <<>>)
        ELSE IF w = "hash_raises" THEN Outcome("error", posts, <<>>)
        ELSE IF w \in {"ok", "exists_raises"}
            THEN Outcome("saved",
                         save_post(posts, meta.title, formatted_content, content_lines,
                                   meta.author, meta.posted_time),
                         saving("ok"))
        ELSE Outcome("error", posts, saving(IF w = "save_fails" THEN "fails" ELSE "raises"))

\* variant: the existence check is made on a digest of the raw lines
process_single_post_raw_hash(content_text, posts, w) ==
    LET content_lines == split_content_lines(content_text)
        meta == extract_post_metadata_from_raw(content_lines)
        formatted_content == create_basic_formatted_content(content_lines)
        content_hash == create_post_hash(content_lines)
        asked(reply) == <<Call("post_exists", content_hash, reply)>>
        saving(reply) == asked("absent") \o <<Call("save_post", content_hash, reply)>>
    IN  IF Len(content_lines) < MinContentLines THEN Outcome("skipped", posts, <<>>)
        ELSE IF w = "hash_raises" THEN Outcome("error", posts, <<>>)
        ELSE IF w = "exists_raises" THEN Outcome("error", posts, asked("raises"))
        ELSE IF post_exists(posts, content_hash)
            THEN Outcome("duplicate", posts, asked("found"))
        ELSE IF w = "ok"
            THEN Outcome("saved",
                         save_post(posts, meta.title, formatted_content, content_lines,
                                   meta.author, meta.posted_time),
                         saving("ok"))
        ELSE Outcome("error", posts, saving(IF w = "save_fails" THEN "fails" ELSE "raises"))

\* variant: a save that reports failure is tried a second time
process_single_post_retry(content_text, posts, w) ==
    LET content_lines == split_content_lines(content_text)
        meta == extract_post_metadata_from_raw(content_lines)
        formatted_content == create_basic_formatted_content(content_lines)
        content_hash == create_post_hash(formatted_content)
        asked(reply) == <<Call("post_exists", content_hash, reply)>>
        saving(reply) == asked("absent") \o <<Call("save_post", content_hash, reply)>>
    IN  IF Len(content_lines) < MinContentLines THEN Outcome("skipped", posts, <<>>)
        ELSE IF w = "hash_raises" THEN Outcome("error", posts, <<>>)
        ELSE IF w = "exists_raises" THEN Outcome("error", posts, asked("raises"))
        ELSE IF post_exists(posts, content_hash)
            THEN Outcome("duplicate", posts, asked("found"))
        ELSE IF w = "ok"
            THEN Outcome("saved",
                         save_post(posts, meta.title, formatted_content, content_lines,
                                   meta.author, meta.posted_time),
                         saving("ok"))
        ELSE IF w = "save_fails"
            THEN Outcome("error", posts,
                         saving("fails") \o <<Call("save_post", content_hash, "fails")>>)
        ELSE Outcome("error", posts, saving("raises"))

process_single_post(content_text, posts, w) ==
    LET content_lines == split_content_lines(content_text)
        meta == extract_post_metadata_from_raw(content_lines)
        formatted_content == create_basic_formatted_content(content_lines)
        content_hash == create_post_hash(formatted_content)
        asked(reply) == <<Call("post_exists", content_hash, reply)>>
        saving(reply) == asked("absent") \o <<Call("save_post", content_hash, reply)>>
    IN  IF Len(content_lines) < MinContentLines THEN Outcome("skipped", posts, <<>>)
        ELSE IF w = "hash_raises" THEN Outcome("error", posts, <<>>)
        ELSE IF w = "exists_raises" THEN Outcome("error", posts, asked("raises"))
        ELSE IF post_exists(posts, content_hash)
            THEN Outcome("duplicate", posts, asked("found"))
        ELSE IF w = "ok"
            THEN Outcome("saved",
                         save_post(posts, meta.title, formatted_content, content_lines,
                                   meta.author, meta.posted_time),
                         saving("ok"))
        ELSE Outcome("error", posts, saving(IF w = "save_fails" THEN "fails" ELSE "raises"))

\* variant: the loop never stops early
loop_continues_always(result) == TRUE

\* variant: the loop also stops at a block that failed
loop_continues_unless_failed(result) == result \notin {"duplicate", "error"}

\* lines 434-440: the loop goes on to the next element unless the result is duplicate
loop_continues(result) == result # "duplicate"

(* --------------------------- expand controls --------------------------- *)
\* id: f"{x}-{y}-{text}"; label: "see more" in text.lower(); click: what
\* button.click() and the script click do
Btn(id, label, displayed, enabled, click) ==
    [id |-> id, label |-> label, displayed |-> displayed, enabled |-> enabled,
     click |-> click]

Btn_a == Btn("10-200-See More", TRUE, TRUE, TRUE, "ok")
Btn_b == Btn("10-640-See More", TRUE, TRUE, TRUE, "script_ok")
Btn_hidden == Btn("10-900-See More", TRUE, FALSE, TRUE, "ok")
Btn_stuck == Btn("10-990-See More", TRUE, TRUE, TRUE, "raise")
Btn_disabled == Btn("10-1200-See More", TRUE, TRUE, FALSE, "ok")

\* the controls the page has
Controls == {Btn_a, Btn_b, Btn_hidden, Btn_stuck, Btn_disabled}

\* show_more_buttons of one iteration: the three matchers' results, in order
ButtonLists ==
    {<<>>, <<Btn_a>>, <<Btn_a, Btn_a>>, <<Btn_hidden, Btn_b>>, <<Btn_a, Btn_b>>,
     <<Btn_stuck>>, <<Btn_stuck, Btn_a>>, <<Btn_disabled, Btn_a>>}

RECURSIVE click_first_again(_, _)
\* variant: the clicked set is not consulted
click_first_again(show_more_buttons, clicked_buttons) ==
    IF show_more_buttons = <<>> THEN ""
    ELSE LET button == Head(show_more_buttons)
         IN  IF /\ button.displayed
                /\ button.enabled
                /\ button.label
                /\ button.click # "raise"
             THEN button.id
             ELSE click_first_again(Tail(show_more_buttons), clicked_buttons)

RECURSIVE click_first(_, _)
\* lines 330-358: the identity of the control the iteration activates, or "" if none
click_first(show_more_buttons, clicked_buttons) ==
    IF show_more_buttons = <<>> THEN ""
    ELSE LET button == Head(show_more_buttons)
         IN  IF /\ button.id \notin clicked_buttons
                /\ button.displayed
                /\ button.enabled
                /\ button.label
                /\ button.click # "raise"
             THEN button.id
             ELSE click_first(Tail(show_more_buttons), clicked_buttons)

\* lines 334-339: a control of the list passes the four tests of the inner loop
eligible(show_more_buttons, clicked_buttons) ==
    \E b \in 1..Len(show_more_buttons) :
        /\ show_more_buttons[b].id \notin clicked_buttons
        /\ show_more_buttons[b].displayed
        /\ show_more_buttons[b].enabled
        /\ show_more_buttons[b].label

RECURSIVE offered_count(_, _)
\* the entries of the list that pass the four tests of lines 334-339
offered_count(show_more_buttons, clicked_buttons) ==
    IF show_more_buttons = <<>> THEN 0
    ELSE (IF eligible(<<Head(show_more_buttons)>>, clicked_buttons) THEN 1 ELSE 0)
             + offered_count(Tail(show_more_buttons), clicked_buttons)

RECURSIVE activated_no_break(_, _)
\* variant: the inner loop has no break, every control that can be is activated
activated_no_break(show_more_buttons, clicked_buttons) ==
    IF show_more_buttons = <<>> THEN <<>>
    ELSE LET button == Head(show_more_buttons)
             ok == /\ eligible(<<button>>, clicked_buttons)
                   /\ button.click # "raise"
         IN  IF ok
             THEN <<button.id>> \o activated_no_break(Tail(show_more_buttons),
                                                      clicked_buttons \cup {button.id})
             ELSE activated_no_break(Tail(show_more_buttons), clicked_buttons)

\* lines 330-358: the identities the inner loop activates, in order: it
\* breaks after the first
activated(show_more_buttons, clicked_buttons) ==
    IF click_first(show_more_buttons, clicked_buttons) = "" THEN <<>>
    ELSE <<click_first(show_more_buttons, clicked_buttons)>>

\* variant: scroll_attempts = 0 comes before the click is tried
next_attempts_reset_on_try(scroll_attempts, clicked, tried, unchanged) ==
    IF tried THEN 0
    ELSE IF unchanged THEN scroll_attempts + 1
    ELSE 0

\* lines 350 and 370-379: scroll_attempts after an iteration.  clicked: a
\* control was activated (line 350 ran); tried: an eligible control was met,
\* whether or not its click went through; unchanged: scrollTop is as before
next_attempts(scroll_attempts, clicked, tried, unchanged) ==
    IF unchanged THEN (IF clicked THEN 0 ELSE scroll_attempts) + 1
    ELSE 0

\* lines 264-293.  container: what the search for a scrollable container gave
\* ("none" before it and once the loader has returned after scrolling).
\* History of the loop: steps, the iterations made, each of which scrolls;
\* quiet, the latest iterations in a row that found the position unchanged and
\* no eligible control; found, an iteration has found an eligible control;
\* moves, the iterations that found the position changed; hits, the
\* activations made; offered, the eligible entries of the latest list
ScrollLocals ==
    [last_scroll_top |-> 0, scroll_attempts |-> 0, clicked_buttons |-> {}, steps |-> 0,
     container |-> "none", quiet |-> 0, found |-> FALSE, moves |-> 0, hits |-> 0,
     offered |-> 0]

\* variant: the attempts count only iterations whose matchers return nothing
scroll_iteration_counts_empty(loc, show_more_buttons, find_error, current_scroll_top) ==
    LET acts == IF find_error THEN <<>>
                ELSE activated(show_more_buttons, loc.clicked_buttons)
        offered == IF find_error THEN 0
                   ELSE offered_count(show_more_buttons, loc.clicked_buttons)
        unchanged == current_scroll_top = loc.last_scroll_top
    IN  [last_scroll_top |-> current_scroll_top,
         scroll_attempts |->
             IF unchanged /\ show_more_buttons = <<>> THEN loc.scroll_attempts + 1 ELSE 0,
         clicked_buttons |-> loc.clicked_buttons \cup {acts[a] : a \in 1..Len(acts)},
         steps |-> loc.steps + 1,
         container |-> loc.container,
         quiet |-> IF unchanged /\ offered = 0 THEN loc.quiet + 1 ELSE 0,
         found |-> loc.found \/ offered > 0,
         moves |-> IF unchanged THEN loc.moves ELSE loc.moves + 1,
         hits |-> loc.hits + Len(acts),
         offered |-> offered]

\* lines 296-382: one iteration of the while loop
scroll_iteration(loc, show_more_buttons, find_error, current_scroll_top) ==
    LET acts == IF find_error THEN <<>>
                ELSE activated(show_more_buttons, loc.clicked_buttons)
        offered == IF find_error THEN 0
                   ELSE offered_count(show_more_buttons, loc.clicked_buttons)
        unchanged == current_scroll_top = loc.last_scroll_top
    IN  [last_scroll_top |-> current_scroll_top,
         scroll_attempts |->
             next_attempts(loc.scroll_attempts, acts # <<>>, offered > 0, unchanged),
         clicked_buttons |-> loc.clicked_buttons \cup {acts[a] : a \in 1..Len(acts)},
         steps |-> loc.steps + 1,
         container |-> loc.container,
         quiet |-> IF unchanged /\ offered = 0 THEN loc.quiet + 1 ELSE 0,
         found |-> loc.found \/ offered > 0,
         moves |-> IF unchanged THEN loc.moves ELSE loc.moves + 1,
         hits |-> loc.hits + Len(acts),
         offered |-> offered]

\* variant: the loop is entered whatever the search gave
after_container_search_always(search) == "scroll_loop"

\* lines 288 and 388-389: the loop is entered only with a container
after_container_search(search) == IF search = "found" THEN "scroll_loop" ELSE "select"

(* ------------------------------ selectors ------------------------------ *)
\* selectors_to_try, then the div[class*='px-5'] query of lines 415-417
NSelectors == 4
GenericSelector == NSelectors + 1

RECURSIVE first_non_empty_no_break(_, _)
\* variant: the loop over the selectors has no break, the last match stays
first_non_empty_no_break(dom, s) ==
    IF s > NSelectors THEN GenericSelector
    ELSE LET rest == first_non_empty_no_break(dom, s + 1)
         IN  IF rest <= NSelectors THEN rest
             ELSE IF dom[s] # <<>> THEN s
             ELSE rest

RECURSIVE first_non_empty(_, _)
\* lines 402-409: the first selector from s on that finds elements, or the
\* generic query when none does
first_non_empty(dom, s) ==
    IF s > NSelectors THEN GenericSelector
    ELSE IF dom[s] # <<>> THEN s
    ELSE first_non_empty(dom, s + 1)

\* lines 402-418
select_elements(dom) == dom[first_non_empty(dom, 1)]

\* lines 402-417: the queries find_elements receives, in order
selectors_queried(dom) == [s \in 1..first_non_empty(dom, 1) |-> s]

RECURSIVE keep_content_blocks(_, _)
\* lines 460-470: the loop over the divs scanned
keep_content_blocks(divs, content_blocks) ==
    IF divs = <<>> \/ Len(content_blocks) >= FallbackCap THEN content_blocks
    ELSE LET text == strip_text(Head(divs))
         IN  keep_content_blocks(Tail(divs),
                 IF text_len(text) > FallbackMinLen /\ text_len(text) < FallbackMaxLen
                 THEN Append(content_blocks, text) ELSE content_blocks)

\* lines 451-479: a method no other method calls
fallback_content_extraction(all_divs) ==
    keep_content_blocks(SubSeq(all_divs, 1, Min(FallbackScan, Len(all_divs))), <<>>)

\* the documents: selector k is the first to match, with page; the selectors
\* after it match one other element or nothing
Dom(k, page, later) ==
    [s \in 1..GenericSelector |->
        IF s < k THEN <<>> ELSE IF s = k THEN page ELSE later]

(* --------------------------- session startup --------------------------- *)
\* what one strategy meets: the session, TimeoutError, or another exception
StartupOutcomes == {"ok", "timeout", "error"}
Try(strategy, outcome) == [strategy |-> strategy, outcome |-> outcome]

\* variant: a timeout of the managed strategy ends init_chrome_driver
init_chrome_driver_timeout_ends(o1, o2) ==
    IF o1 = "error"
    THEN <<Try("chrome_managed", o1), Try("chrome_plain", o2)>>
    ELSE <<Try("chrome_managed", o1)>>

\* lines 73-119: the strategies init_chrome_driver tries, given what the
\* managed and the plain strategy meet
init_chrome_driver(o1, o2) ==
    IF o1 = "ok"
    THEN <<Try("chrome_managed", o1)>>
    ELSE <<Try("chrome_managed", o1), Try("chrome_plain", o2)>>

\* lines 121-148
init_firefox_driver(o3) == <<Try("firefox", o3)>>

\* the driver a function returns after these tries: the session of its last
\* strategy, or None
returned_driver(tried) == IF tried[Len(tried)].outcome = "ok" THEN "open" ELSE "None"

(* ------------------------------ cleanup -------------------------------- *)
\* variant: the store is closed only when there is a browser session
cleanup_nested(drv, quit, close) ==
    [quit |-> IF drv # "None" THEN quit ELSE "none",
     close |-> IF drv # "None" THEN close ELSE "none",
     raised |-> FALSE]

\* variant: quit() and close_connection() are called outside any try
cleanup_unguarded(drv, quit, close) ==
    [quit |-> IF drv # "None" THEN quit ELSE "none",
     close |-> IF drv # "None" /\ quit = "raise" THEN "none" ELSE close,
     raised |-> (drv # "None" /\ quit = "raise") \/ close = "raise"]

\* lines 644-659: which calls cleanup makes and whether it raises, given
\* self.driver and what quit() and close_connection() do
cleanup(drv, quit, close) ==
    [quit |-> IF drv # "None" THEN quit ELSE "none",
     close |-> close,
     raised |-> FALSE]

RECURSIVE count_result(_, _)
\* the elements of the pass for which process_single_post returned result
count_result(log, result) ==
    IF log = <<>> THEN 0
    ELSE (IF Head(log).result = result THEN 1 ELSE 0) + count_result(Tail(log), result)

\* variant: a failure of get_posts_stats() reaches the handler of scrape()
after_stats_unguarded(stats) == IF stats = "ok" THEN "True" ELSE "False"

\* lines 613-621: what scrape() returns once the counts are printed, given
\* what get_posts_stats() does
after_stats(stats) == "True"

\* variant: the value login() returns is ignored
after_login_ignored(ok) == "find_container"

\* lines 603-604
after_login(ok) == IF ok THEN "find_container" ELSE "except"

(* ------------------------------- state --------------------------------- *)
VARIABLES
    pc,                \* where scrape() is; "idle" between invocations
    driver,            \* self.driver: "None", or a session that is "open" or "quit"
    posts,             \* the posts the store holds
    db_closed,         \* close_connection() has been called on self.db_manager
    used_closed,       \* this invocation made a store call on it after that
    startup,           \* the strategies initialize_driver has tried
    login_result,      \* "none", "ok", "failed"
    scroll,            \* locals of scroll_and_load_content
    dom,               \* what each selector found, until the loop starts
    content_elements,  \* locals of extract_content_incrementally
    idx,
    new_posts,
    processed_count,
    outcomes,          \* per element iterated: the result and the store calls
    retval,            \* "none", "True", "False", "raised"
    cleaned,           \* what cleanup did in this invocation
    finished,          \* what the extraction pass that returned did, and the statistics
    feed,              \* the posts the page lists, newest first (feed study)
    arg,               \* the argument of the function under study (function studies)
    ret                \* the value it returned

vars == <<pc, driver, posts, db_closed, used_closed, startup, login_result,
          scroll, dom, content_elements, idx, new_posts, processed_count,
          outcomes, retval, cleaned, finished, feed, arg, ret>>

NoDom == [s \in 1..GenericSelector |-> <<>>]
NotCleaned == [quit |-> "none", close |-> "none", raised |-> FALSE]

NotFinished == [processed |-> 0, errored |-> 0, stats |-> "none"]
NoValue == <<>>

\* lines 25-33
Constructed ==
    /\ pc = "idle"
    /\ driver = "None"
    /\ posts = <<>>
    /\ db_closed = FALSE
    /\ used_closed = FALSE
    /\ startup = <<>>
    /\ login_result = "none"
    /\ scroll = ScrollLocals
    /\ dom = NoDom
    /\ content_elements = <<>>
    /\ idx = 0
    /\ new_posts = <<>>
    /\ processed_count = 0
    /\ outcomes = <<>>
    /\ retval = "none"
    /\ cleaned = NotCleaned
    /\ finished = NotFinished

\* the scraper as constructed; no feed and no function is under study
Init ==
    /\ Constructed
    /\ feed = <<>>
    /\ arg = NoValue
    /\ ret = NoValue

study_vars == <<feed, arg, ret>>

extraction_vars == <<dom, content_elements, idx, new_posts, processed_count, outcomes>>

\* scrape() is called
Scrape ==
    /\ pc = "idle"
    /\ pc' = "init_chrome"
    /\ startup' = <<>>
    /\ login_result' = "none"
    /\ scroll' = ScrollLocals
    /\ dom' = NoDom
    /\ content_elements' = <<>>
    /\ idx' = 0
    /\ new_posts' = <<>>
    /\ processed_count' = 0
    /\ outcomes' = <<>>
    /\ retval' = "none"
    /\ cleaned' = NotCleaned
    /\ used_closed' = FALSE
    /\ UNCHANGED <<driver, posts, db_closed>>
    /\ finished' = NotFinished
    /\ UNCHANGED study_vars

\* lines 73-119 and 154: self.driver = self.init_chrome_driver()
InitChromeDriver ==
    /\ pc = "init_chrome"
    /\ \E o1 \in StartupOutcomes, o2 \in StartupOutcomes :
        LET tried == init_chrome_driver(o1, o2)
        IN  /\ startup' = tried
            /\ driver' = returned_driver(tried)
            /\ pc' = IF driver' # "None" THEN "login" ELSE "init_firefox"
    /\ UNCHANGED <<posts, db_closed, used_closed, login_result, scroll,
                   retval, cleaned>>
    /\ UNCHANGED extraction_vars
    /\ UNCHANGED finished
    /\ UNCHANGED study_vars

\* lines 121-148 and 156-165
InitFirefoxDriver ==
    /\ pc = "init_firefox"
    /\ \E o3 \in StartupOutcomes :
        /\ startup' = startup \o init_firefox_driver(o3)
        /\ driver' = returned_driver(init_firefox_driver(o3))
        /\ pc' = IF driver' # "None" THEN "login" ELSE "except"
    /\ UNCHANGED <<posts, db_closed, used_closed, login_result, scroll,
                   retval, cleaned>>
    /\ UNCHANGED extraction_vars
    /\ UNCHANGED finished
    /\ UNCHANGED study_vars

\* lines 170-258 and 603-604.  "ok": the success marker appeared; "false": an
\* element or the marker was missing and login returned False; "raised": the
\* diagnostics of the handler (driver.title, driver.current_url) raised
Login ==
    /\ pc = "login"
    /\ \E o \in {"ok", "false", "raised"} :
        /\ login_result' = IF o = "ok" THEN "ok" ELSE "failed"
        /\ pc' = IF o = "raised" THEN "except" ELSE after_login(o = "ok")
    /\ startup' = <<>>
    /\ UNCHANGED <<driver, posts, db_closed, used_closed, scroll,
                   retval, cleaned>>
    /\ UNCHANGED extraction_vars
    /\ UNCHANGED finished
    /\ UNCHANGED study_vars

\* lines 264-289 and 388-389: a candidate is taller than its window, or none
\* is, or the search raised
FindScrollableContainer ==
    /\ pc = "find_container"
    /\ \E search \in {"found", "absent", "raised"} :
        /\ scroll' = [ScrollLocals EXCEPT !.container = search]
        /\ pc' = after_container_search(search)
    /\ UNCHANGED <<driver, posts, db_closed, used_closed, startup, login_result,
                   retval, cleaned>>
    /\ UNCHANGED extraction_vars
    /\ UNCHANGED finished
    /\ UNCHANGED study_vars

\* lines 295-382
ScrollIteration ==
    /\ pc = "scroll_loop"
    /\ scroll.scroll_attempts < max_attempts
    /\ \/ \E buttons \in ButtonLists, find_error \in BOOLEAN, top \in 0..MaxTop :
            /\ scroll.steps >= MaxScrollSteps =>
                   buttons = <<>> /\ ~find_error /\ top = scroll.last_scroll_top
            /\ scroll' = scroll_iteration(scroll, buttons, find_error, top)
            /\ pc' = "scroll_loop"
       \/ \* execute_script raised (lines 296, 363, 366)
          /\ scroll' = ScrollLocals
          /\ pc' = "except"
    /\ UNCHANGED <<driver, posts, db_closed, used_closed, startup, login_result,
                   retval, cleaned>>
    /\ UNCHANGED extraction_vars
    /\ UNCHANGED finished
    /\ UNCHANGED study_vars

\* lines 384-386
ScrollFinished ==
    /\ pc = "scroll_loop"
    /\ scroll.scroll_attempts >= max_attempts
    /\ scroll' = ScrollLocals
    /\ pc' = "select"
    /\ UNCHANGED <<driver, posts, db_closed, used_closed, startup, login_result,
                   retval, cleaned>>
    /\ UNCHANGED extraction_vars
    /\ UNCHANGED finished
    /\ UNCHANGED study_vars

\* lines 395-421
SelectElements ==
    /\ pc = "select"
    /\ \/ \E k \in 1..GenericSelector, page \in Pages, later \in {<<>>, <<B_other>>} :
            /\ k < GenericSelector => page # <<>>
            /\ dom' = Dom(k, page, later)
            /\ content_elements' = select_elements(dom')
            /\ pc' = IF content_elements' = <<>> THEN "stats" ELSE "loop"
       \/ \* find_elements raised
          /\ pc' = "except"
          /\ UNCHANGED <<dom, content_elements>>
    /\ scroll' = ScrollLocals
    /\ UNCHANGED <<driver, posts, db_closed, used_closed, startup, login_result,
                   idx, new_posts, processed_count, outcomes, retval, cleaned>>
    /\ UNCHANGED finished
    /\ UNCHANGED study_vars

\* lines 423-443: one iteration of the for loop
\* variant: a text of 50 characters is handed on as well
is_candidate_from_fifty(element_text) ==
    element_text # <<>> /\ text_len(element_text) >= MinTextLen

\* line 426: element_text and len(element_text) > 50
is_candidate(element_text) ==
    element_text # <<>> /\ text_len(element_text) > MinTextLen

ProcessElement ==
    /\ pc = "loop"
    /\ idx < Len(content_elements)
    /\ idx' = idx + 1
    /\ dom' = NoDom
    /\ \E text_ok \in BOOLEAN, w \in StoreWeather :
        LET element_text == strip_text(content_elements[idx + 1])
            r == process_single_post(element_text, posts, w)
            last == idx + 1 = Len(content_elements)
        IN  /\ ~text_ok => w = "ok"
            /\ faults(outcomes) >= MaxFaults => text_ok /\ w = "ok"
            /\ IF ~text_ok
               THEN \* element.text raised: caught at line 442
                    /\ outcomes' = Append(outcomes, Logged("no_text", <<>>))
                    /\ pc' = IF last THEN "stats" ELSE "loop"
                    /\ UNCHANGED <<posts, used_closed, new_posts, processed_count>>
               ELSE IF is_candidate(element_text)
               THEN /\ processed_count' = processed_count + 1
                    /\ outcomes' = Append(outcomes, Logged(r.result, r.calls))
                    /\ posts' = r.posts
                    /\ used_closed' = (used_closed \/ (db_closed /\ r.calls # <<>>))
                    /\ new_posts' = IF r.result = "saved"
                                    THEN Append(new_posts, element_text) ELSE new_posts
                    /\ pc' = IF loop_continues(r.result) /\ ~last THEN "loop" ELSE "stats"
               ELSE /\ outcomes' = Append(outcomes, Logged("filtered", <<>>))
                    /\ pc' = IF last THEN "stats" ELSE "loop"
                    /\ UNCHANGED <<posts, used_closed, new_posts, processed_count>>
    /\ UNCHANGED <<driver, db_closed, startup, login_result, scroll, content_elements,
                   retval, cleaned>>
    /\ UNCHANGED finished
    /\ UNCHANGED study_vars

\* lines 445-449 and 607-621: extract_content_incrementally returns and its
\* locals are gone; the counts are printed; the statistics are read, or reading
\* them raises; scrape() is about to return True
Stats ==
    /\ pc = "stats"
    /\ used_closed' = (used_closed \/ db_closed)
    /\ \E stats \in {"ok", "raised"} :
        /\ retval' = after_stats(stats)
        /\ finished' = [processed |-> processed_count,
                        errored |-> count_result(outcomes, "error"),
                        stats |-> stats]
    /\ pc' = "cleanup"
    /\ dom' = NoDom
    /\ content_elements' = <<>>
    /\ idx' = 0
    /\ new_posts' = <<>>
    /\ processed_count' = 0
    /\ outcomes' = <<>>
    /\ UNCHANGED <<driver, posts, db_closed, startup, login_result, scroll, cleaned>>
    /\ UNCHANGED study_vars

\* lines 623-639
Except ==
    /\ pc = "except"
    /\ retval' = "False"
    /\ pc' = "cleanup"
    /\ UNCHANGED <<driver, posts, db_closed, used_closed, startup, login_result,
                   scroll, cleaned>>
    /\ UNCHANGED extraction_vars
    /\ UNCHANGED finished
    /\ UNCHANGED study_vars

\* lines 641-659: the finally clause, then scrape() returns
Cleanup ==
    /\ pc = "cleanup"
    /\ \E quit \in {"ok", "raise"}, close \in {"ok", "raise"} :
        LET c == cleanup(driver, quit, close)
        IN  /\ cleaned' = c
            /\ driver' = IF c.quit # "none" THEN "quit" ELSE driver
            /\ db_closed' = (db_closed \/ c.close # "none")
            /\ retval' = IF c.raised THEN "raised" ELSE retval
    /\ pc' = "idle"
    /\ UNCHANGED <<posts, used_closed, startup, login_result, scroll>>
    /\ UNCHANGED extraction_vars
    /\ UNCHANGED finished
    /\ UNCHANGED study_vars

Next ==
    \/ Scrape
    \/ InitChromeDriver
    \/ InitFirefoxDriver
    \/ Login
    \/ FindScrollableContainer
    \/ ScrollIteration
    \/ ScrollFinished
    \/ SelectElements
    \/ ProcessElement
    \/ Stats
    \/ Except
    \/ Cleanup

Spec == Init /\ [][Next]_vars

(* ========================= studies of functions ======================== *)
scraper_vars == <<pc, driver, posts, db_closed, used_closed, startup, login_result,
                  scroll, dom, content_elements, idx, new_posts, processed_count,
                  outcomes, retval, cleaned, finished>>

\* ret once the function has returned value
Returned(value) == <<value>>

\* the element texts of a run of n equal divs
DivRuns == {[i \in 1..n |-> b] : n \in 0..MaxDivs, b \in {B_post, B_long}}

\* documents in which the first selector to match finds a run of divs
Documents ==
    {Dom(k, page, later) : k \in 1..GenericSelector, page \in DivRuns,
                           later \in {<<>>, <<B_other>>}}

InitSelectors ==
    /\ Constructed
    /\ feed = <<>>
    /\ arg \in Documents
    /\ ret = NoValue

\* lines 395-418 on the document arg
CallSelectElements ==
    /\ ret = NoValue
    /\ ret' = Returned(select_elements(arg))
    /\ UNCHANGED <<feed, arg>>
    /\ UNCHANGED scraper_vars

SpecSelectors == InitSelectors /\ [][CallSelectElements]_vars

\* the lines process_single_post passes on are stripped and not blank
TitleLines == {L_title, L_author, L_plain, L_title_long}

InitMetadata ==
    /\ Constructed
    /\ feed = <<>>
    /\ arg \in SeqsUpTo(TitleLines, MaxLines)
    /\ ret = NoValue

\* lines 679-681: extract_post_metadata_from_raw(content_lines)
CallExtractMetadata ==
    /\ ret = NoValue
    /\ ret' = Returned(extract_post_metadata_from_raw(arg))
    /\ UNCHANGED <<feed, arg>>
    /\ UNCHANGED scraper_vars

SpecMetadata == InitMetadata /\ [][CallExtractMetadata]_vars

FormatLines ==
    {L_seeless, L_dot, L_title, L_title_wide, L_deadline, L_due, L_due_link, L_section,
     L_section_bullet, L_bullet, L_bullet_link, L_link, L_plain}

InitFormatter ==
    /\ Constructed
    /\ feed = <<>>
    /\ arg \in SeqsUpTo(FormatLines, MaxFormatLines)
    /\ ret = NoValue

\* line 682: create_basic_formatted_content(content_lines)
CallFormatContent ==
    /\ ret = NoValue
    /\ ret' = Returned(create_basic_formatted_content(arg))
    /\ UNCHANGED <<feed, arg>>
    /\ UNCHANGED scraper_vars

SpecFormatter == InitFormatter /\ [][CallFormatContent]_vars

(* ========================== study of the feed ========================== *)
\* the posts that can appear; no two have the same formatted content
FeedBlocks == {B_post, B_other, B_short}

\* between two invocations a new post appears at the front of the feed
Publish ==
    /\ pc = "idle"
    /\ Len(feed) < MaxFeed
    /\ \E b \in FeedBlocks :
        /\ \A i \in 1..Len(feed) : feed[i] # b
        /\ feed' = <<b>> \o feed
    /\ UNCHANGED <<arg, ret>>
    /\ UNCHANGED scraper_vars

\* lines 395-421 on a page whose first selector finds the posts of the feed,
\* newest first
SelectFromFeed ==
    /\ pc = "select"
    /\ \/ /\ dom' = Dom(1, feed, <<>>)
          /\ content_elements' = select_elements(dom')
          /\ pc' = IF content_elements' = <<>> THEN "stats" ELSE "loop"
       \/ \* find_elements raised
          /\ pc' = "except"
          /\ UNCHANGED <<dom, content_elements>>
    /\ scroll' = ScrollLocals
    /\ UNCHANGED <<driver, posts, db_closed, used_closed, startup, login_result,
                   idx, new_posts, processed_count, outcomes, retval, cleaned>>
    /\ UNCHANGED finished
    /\ UNCHANGED study_vars

NextFeed ==
    \/ Publish
    \/ Scrape
    \/ InitChromeDriver
    \/ InitFirefoxDriver
    \/ Login
    \/ FindScrollableContainer
    \/ ScrollIteration
    \/ ScrollFinished
    \/ SelectFromFeed
    \/ ProcessElement
    \/ Stats
    \/ Except
    \/ Cleanup

SpecFeed == Init /\ [][NextFeed]_vars

(* ========================= study of the loader ========================= *)
\* scroll_and_load_content is called: a session is open and login succeeded
InitLoader ==
    /\ pc = "find_container"
    /\ driver = "open"
    /\ login_result = "ok"
    /\ posts = <<>>
    /\ db_closed = FALSE
    /\ used_closed = FALSE
    /\ startup = <<>>
    /\ scroll = ScrollLocals
    /\ dom = NoDom
    /\ content_elements = <<>>
    /\ idx = 0
    /\ new_posts = <<>>
    /\ processed_count = 0
    /\ outcomes = <<>>
    /\ retval = "none"
    /\ cleaned = NotCleaned
    /\ finished = NotFinished
    /\ feed = <<>>
    /\ arg = NoValue
    /\ ret = NoValue

\* no run of the loop is followed beyond this many iterations
LoaderStepCap == max_attempts * (MaxMoves + Cardinality(Controls) + 1) + 1

\* lines 295-382 on a page whose position changes at most MaxMoves times and
\* that goes on offering any of its controls, also those whose clicks fail
LoaderIteration ==
    /\ pc = "scroll_loop"
    /\ scroll.scroll_attempts < max_attempts
    /\ scroll.steps < LoaderStepCap
    /\ \/ \E buttons \in ButtonLists, find_error \in BOOLEAN, top \in 0..MaxTop :
            /\ scroll.moves >= MaxMoves => top = scroll.last_scroll_top
            /\ scroll' = scroll_iteration(scroll, buttons, find_error, top)
            /\ pc' = "scroll_loop"
       \/ \* execute_script raised (lines 296, 363, 366)
          /\ scroll' = ScrollLocals
          /\ pc' = "except"
    /\ UNCHANGED <<driver, posts, db_closed, used_closed, startup, login_result,
                   retval, cleaned>>
    /\ UNCHANGED extraction_vars
    /\ UNCHANGED finished
    /\ UNCHANGED study_vars

NextLoader ==
    \/ FindScrollableContainer
    \/ LoaderIteration
    \/ ScrollFinished

\* the statements of the method run one after the other and each call returns
SpecLoader ==
    /\ InitLoader
    /\ [][NextLoader]_vars
    /\ WF_vars(FindScrollableContainer)
    /\ WF_vars(LoaderIteration)
    /\ WF_vars(ScrollFinished)

(* ======================= properties of the pipeline ==================== *)
Iterated == 1..Len(outcomes)

\* the element's text was read and has more than 50 characters: it went to
\* process_single_post
Processed(i) == outcomes[i].result \notin {"no_text", "filtered"}

\* the digest of the formatted content of element i
HashOf(i) ==
    create_post_hash(create_basic_formatted_content(
        split_content_lines(strip_text(content_elements[i]))))

Replies(i, op) == {outcomes[i].calls[c].reply : c \in {d \in 1..Len(outcomes[i].calls) :
                                                        outcomes[i].calls[d].op = op}}

\* the store answered the existence check of element i with "exists"
ReportedExisting(i) == "found" \in Replies(i, "post_exists")

\* the extraction loop has stopped at element i
HaltedAt(i) == Len(outcomes) = i /\ idx = i /\ pc # "loop"

\* C1: when the store reports the hash of block k as existing, k is the first
\* such block, it gets outcome duplicate, every block before it has got an
\* outcome of its own (saved, skipped or error if it went to
\* process_single_post), and no block after k is iterated: the loop has stopped
\* at k, so no existence check and no save is issued for a later block.
C1_DuplicateHalts ==
    /\ Len(outcomes) = idx
    /\ idx <= Len(content_elements)
    /\ \A k \in Iterated :
        ReportedExisting(k) =>
            /\ outcomes[k].result = "duplicate"
            /\ HaltedAt(k)
            /\ \A i \in 1..(k - 1) :
                /\ ~ReportedExisting(i)
                /\ Processed(i) => outcomes[i].result \in {"saved", "skipped", "error"}

\* a run that saved a block, then met a stored one and left a third untouched
C1_Witness ==
    /\ pc = "stats"
    /\ Len(content_elements) = 3
    /\ Len(outcomes) = 2
    /\ outcomes[1].result = "saved"
    /\ ReportedExisting(2)
    /\ HashOf(1) # HashOf(2)

NoTwoWithSameHash ==
    \A a, b \in 1..Len(posts) : posts[a].content_hash = posts[b].content_hash => a = b

\* C2: over every sequence of runs, a save is issued only right after the
\* store has answered the existence check of the same hash with "absent", and
\* the store never holds two posts with the same content hash.
C2_SaveOnlyUnseen ==
    /\ NoTwoWithSameHash
    /\ \A i \in Iterated :
        \A c \in 1..Len(outcomes[i].calls) :
            outcomes[i].calls[c].op = "save_post" =>
                /\ c > 1
                /\ outcomes[i].calls[c - 1] =
                       Call("post_exists", outcomes[i].calls[c].hash, "absent")

\* a later run on the same store saved a second post beside an earlier one
C2_Witness ==
    /\ pc = "stats"
    /\ used_closed
    /\ Len(posts) = 2
    /\ Len(new_posts) = 1

SameContent(i, j) == HashOf(i) = HashOf(j)

\* C3 as stated: of two blocks with the same formatted content that both go
\* to process_single_post, if the first is saved the second is duplicate and
\* the loop stops there.
C3_AsStated ==
    \A i, j \in Iterated :
        (i < j /\ Processed(i) /\ Processed(j) /\ SameContent(i, j)
             /\ outcomes[i].result = "saved")
        => (outcomes[j].result = "duplicate" /\ HaltedAt(j))

\* C3 amended: of two blocks with the same formatted content, if the first is
\* saved then the second, once its digest and its existence check have
\* answered, is duplicate and the loop stops there with no later block
\* iterated; when the digest or the existence check raises, the second is
\* error, nothing is saved for it and the loop goes on.
C3_SecondIsDuplicate ==
    \A i, j \in Iterated :
        (i < j /\ Processed(i) /\ Processed(j) /\ SameContent(i, j)
             /\ outcomes[i].result = "saved")
        => \/ outcomes[j].result = "duplicate" /\ HaltedAt(j)
           \/ /\ outcomes[j].result = "error"
              /\ Replies(j, "post_exists") \subseteq {"raises"}
              /\ Replies(j, "save_post") = {}

\* two different raw texts with one formatted content, then a third block
C3_Witness ==
    /\ pc = "stats"
    /\ Len(content_elements) = 3
    /\ content_elements[1] # content_elements[2]
    /\ SameContent(1, 2)
    /\ ~SameContent(1, 3)
    /\ Len(outcomes) = 2
    /\ outcomes[1].result = "saved"
    /\ outcomes[2].result = "duplicate"

\* the save calls issued for element i
SaveCalls(i) ==
    {c \in 1..Len(outcomes[i].calls) : outcomes[i].calls[c].op = "save_post"}

\* C4 as stated: in one run no two save attempts are made for one hash.
C4_AsStated ==
    \A i, j \in Iterated :
        \A c \in SaveCalls(i), d \in SaveCalls(j) :
            outcomes[i].calls[c].hash = outcomes[j].calls[d].hash => i = j /\ c = d

\* C4 amended: in one run at most one save attempt is made per candidate
\* block and at most one save succeeds per content hash; a hash is attempted
\* again, for a later block of the same formatted content, only when every
\* earlier attempt for it in the run failed, and nothing is attempted for a
\* hash after its save succeeded.
C4_OneSavePerHash ==
    \A i, j \in Iterated :
        \A c \in SaveCalls(i), d \in SaveCalls(j) :
            outcomes[i].calls[c].hash = outcomes[j].calls[d].hash =>
                /\ i = j => c = d
                /\ i < j => outcomes[i].calls[c].reply # "ok"

\* a failed save and, for a later block of the same content, a second attempt
C4_Witness ==
    /\ Len(outcomes) >= 2
    /\ SameContent(1, 2)
    /\ Replies(1, "save_post") = {"fails"}
    /\ Replies(2, "save_post") = {"ok"}

RECURSIVE CountMeaningful(_)
\* the lines of a text that are neither blank nor block markers
CountMeaningful(text) ==
    IF text = <<>> THEN 0
    ELSE (IF Head(text).len > 0 /\ ~({"===", "Content Block"} \subseteq Head(text).has)
          THEN 1 ELSE 0) + CountMeaningful(Tail(text))

\* C5: the iteration over a block of fewer than 3 non-empty, non-structural
\* lines, when the block goes to process_single_post, records outcome skipped
\* with no existence check and no save; it leaves the store as it was and the
\* loop goes on to the next block if there is one.
C5_ShortIsSkipped ==
    [][(pc = "loop"
            /\ CountMeaningful(strip_text(content_elements[idx + 1])) < MinContentLines)
       => /\ Len(outcomes') = idx + 1
          /\ outcomes'[idx + 1].result \notin {"no_text", "filtered"}
                 => outcomes'[idx + 1] = Logged("skipped", <<>>)
          /\ outcomes'[idx + 1].result # "error"
          /\ posts' = posts
          /\ pc' = IF idx + 1 < Len(content_elements) THEN "loop" ELSE "stats"]_vars

\* a short block was skipped and the block after it saved
C5_Witness ==
    /\ Len(outcomes) >= 2
    /\ CountMeaningful(strip_text(content_elements[1])) < MinContentLines
    /\ outcomes[1] = Logged("skipped", <<>>)
    /\ outcomes[2].result = "saved"

Failed(i) == outcomes[i].result \in {"error", "no_text"}

\* C6: a block whose text, digest, existence check or save failed is classed
\* error (or has no outcome when its text could not be read), nothing is
\* stored for it, the loop goes on to the next block, and once the loop has
\* begun the pass only goes on or returns: no failure leaves the loop and
\* scrape() has not failed.
C6_FailureIsPerBlock ==
    /\ \A i \in Iterated :
        /\ (Replies(i, "post_exists") \cup Replies(i, "save_post")) \cap {"raises", "fails"} # {}
               => outcomes[i].result = "error"
        /\ Failed(i) =>
               /\ "ok" \notin Replies(i, "save_post")
               /\ (Len(outcomes) = i /\ i < Len(content_elements)) => pc = "loop"
    /\ outcomes # <<>> => pc \in {"loop", "stats"} /\ retval = "none"

\* the existence check of the first block raised, the second block was saved
\* and the pass returns
C6_Witness ==
    /\ pc = "stats"
    /\ Len(outcomes) >= 2
    /\ outcomes[1].result = "error"
    /\ Replies(1, "post_exists") = {"raises"}
    /\ outcomes[2].result = "saved"

\* C7: when scrape() has returned, close_connection() has been called on the
\* store and, if the invocation created a browser session, quit() has been
\* called on it, whichever way the invocation ended.
C7_ResourcesReleased ==
    (pc = "idle" /\ retval # "none") =>
        /\ cleaned.close # "none"
        /\ db_closed
        /\ driver # "None" => driver = "quit" /\ cleaned.quit # "none"

\* an invocation that failed after login and released both
C7_Witness ==
    /\ pc = "idle"
    /\ retval = "False"
    /\ login_result = "ok"
    /\ driver = "quit"
    /\ cleaned.close = "ok"

\* C8: cleanup leaves the value scrape() returns as it was, raises nothing,
\* and calls close_connection() also when quit() raised.
C8_CleanupSwallows ==
    [][pc = "cleanup"
       => /\ retval' = retval
          /\ pc' = "idle"
          /\ ~cleaned'.raised
          /\ cleaned'.close # "none"]_vars

\* both quit() and close_connection() raised and scrape() returned True
C8_Witness ==
    /\ pc = "idle"
    /\ cleaned.quit = "raise"
    /\ cleaned.close = "raise"
    /\ retval = "True"

\* C9 as stated: no store call of an invocation is made on the connection
\* after an earlier invocation called close_connection() on it.
C9_AsStated == ~used_closed

\* C10: after login has failed nothing but the failure handling runs: no
\* scroll iteration, no selector query, no element, no store call; and
\* scrape() returns False.
C10_LoginFailureAborts ==
    login_result = "failed" =>
        /\ pc \in {"except", "cleanup", "idle"}
        /\ scroll = ScrollLocals
        /\ dom = NoDom
        /\ content_elements = <<>>
        /\ outcomes = <<>>
        /\ ~used_closed
        /\ retval # "True"
        /\ pc = "idle" => retval = "False"

\* login returned False and scrape() returned False
C10_Witness ==
    /\ pc = "idle"
    /\ login_result = "failed"
    /\ retval = "False"
    /\ driver = "quit"

(* ========================= session startup ============================= *)
StrategyOrder == <<"chrome_managed", "chrome_plain", "firefox">>

AllFailed(tried) == \A i \in 1..Len(tried) : tried[i].outcome # "ok"

\* C11: the strategies are tried in the order Chrome with the managed driver,
\* Chrome without it, Firefox; one is tried only when every one before it
\* failed, whether by an error or by a timeout; the first to succeed gives the
\* session and login follows; initialize_driver raises only when all three
\* have failed.
C11_StartupInOrder ==
    /\ Len(startup) <= Len(StrategyOrder)
    /\ \A i \in 1..Len(startup) :
        /\ startup[i].strategy = StrategyOrder[i]
        /\ i < Len(startup) => startup[i].outcome \in {"error", "timeout"}
    /\ pc = "init_firefox" => Len(startup) = 2 /\ AllFailed(startup)
    /\ pc = "login" =>
           /\ startup # <<>>
           /\ startup[Len(startup)].outcome = "ok"
           /\ driver = "open"
    /\ (pc = "except" /\ startup # <<>>) =>
           /\ Len(startup) = Len(StrategyOrder)
           /\ AllFailed(startup)
           /\ driver = "None"

\* the managed strategy timed out, the plain one raised, Firefox gave the session
C11_Witness ==
    /\ pc = "login"
    /\ Len(startup) = 3
    /\ startup[1].outcome = "timeout"
    /\ startup[2].outcome = "error"
    /\ driver = "open"

(* ============================ result of a run ========================== *)
\* C12: once the extraction pass of an invocation has returned, scrape()
\* returns True, however many blocks had outcome error and whether or not
\* get_posts_stats() raised.
C12_PassDoneIsSuccess ==
    finished.stats # "none" =>
        /\ pc \in {"cleanup", "idle"}
        /\ retval = "True"

\* every processed block had outcome error, the statistics could not be read,
\* and scrape() returned True
C12_Witness ==
    /\ pc = "idle"
    /\ finished.stats = "raised"
    /\ finished.processed > 0
    /\ finished.errored = finished.processed
    /\ retval = "True"

\* line 449: the counts the pass returns: processed_count, and the length of
\* new_posts
returned_counts == {processed_count, Len(new_posts)}

\* C13 as stated: the pass returns the numbers of processed, saved, skipped
\* and errored blocks, and they agree with the outcomes: processed is the
\* number of blocks that went to process_single_post, and each of these is
\* saved, skipped, errored or the one duplicate the pass halted at.
C13_AsStated ==
    pc = "stats" =>
        LET saved == count_result(outcomes, "saved")
            skipped == count_result(outcomes, "skipped")
            errored == count_result(outcomes, "error")
            halted == count_result(outcomes, "duplicate")
        IN  /\ processed_count = saved + skipped + errored + halted
            /\ halted <= 1
            /\ Len(new_posts) = saved
            /\ skipped \in returned_counts
            /\ errored \in returned_counts

(* ============================== loading ================================ *)
\* the selectors of selectors_to_try that match something in the document
Matching == {s \in 1..NSelectors : dom[s] # <<>>}

ElementText(i) == strip_text(content_elements[i])

\* C16: the selectors are queried in their fixed order up to the first that
\* finds elements and none after it; the elements of that one, in document
\* order, are the candidates; the loop takes them one by one in that order
\* (each outcome is that of the element at its position) and, unless it
\* halts at a duplicate, takes all N of them.
C16_FirstMatchingSelector ==
    /\ Matching # {} =>
           \E k \in Matching :
               /\ \A s \in Matching : k <= s
               /\ content_elements = dom[k]
               /\ selectors_queried(dom) = [s \in 1..k |-> s]
    /\ idx = Len(outcomes)
    /\ \A i \in Iterated :
        /\ outcomes[i].calls # <<>> => outcomes[i].calls[1].hash = HashOf(i)
        /\ outcomes[i].result = "filtered" => text_len(ElementText(i)) <= MinTextLen
        /\ outcomes[i].result = "skipped" => CountMeaningful(ElementText(i)) < MinContentLines
    /\ (pc = "stats" /\ count_result(outcomes, "duplicate") = 0) =>
           Len(outcomes) = Len(content_elements)

\* the first selector found nothing, the second three elements, the later
\* ones another element: the three are the candidates
C16_Witness ==
    /\ pc = "loop"
    /\ dom[1] = <<>>
    /\ Len(dom[2]) = 3
    /\ dom[3] # <<>>
    /\ dom[3] # dom[2]
    /\ content_elements = dom[2]


\* C14: when the latest 5 iterations in a row found the scroll position
\* unchanged and no unclicked, visible, enabled control, the loop condition
\* is false and the loader leaves the loop; if no iteration ever found such a
\* control, none has been clicked.
C14_QuietLoopEnds ==
    pc = "scroll_loop" =>
        /\ scroll.quiet >= max_attempts => scroll.scroll_attempts >= max_attempts
        /\ ~scroll.found => scroll.clicked_buttons = {}

\* the position moved once, then five iterations in a row were quiet; nothing
\* was ever clicked
C14_Witness ==
    /\ pc = "scroll_loop"
    /\ scroll.quiet = max_attempts
    /\ scroll.steps > max_attempts
    /\ ~scroll.found
    /\ scroll.clicked_buttons = {}
    /\ scroll.scroll_attempts = max_attempts

\* C15: when the search finds no scrollable container, or raises, the loader
\* has returned at once: no iteration of the loop was made, so nothing was
\* scrolled and nothing clicked, and the selectors are next.
C15_NoContainerNoScroll ==
    scroll.container \in {"absent", "raised"} =>
        /\ pc = "select"
        /\ scroll.steps = 0
        /\ scroll.clicked_buttons = {}

\* the search raised and the loader has returned
C15_Witness ==
    /\ pc = "select"
    /\ scroll.container = "raised"
    /\ scroll.steps = 0

(* ======================= the generic candidates ======================== *)
\* the texts of the elements find_elements returned
Texts(elements) == [i \in 1..Len(elements) |-> strip_text(elements[i])]

\* C17 as stated: when no selector of selectors_to_try matches, the candidates
\* are those of the generic strategy: of the first 50 generic elements, the
\* ones whose text has more than 100 and fewer than 5000 characters, and at
\* most 10 of them.
C17_AsStated ==
    (ret # NoValue /\ \A s \in 1..NSelectors : arg[s] = <<>>) =>
        /\ Texts(ret[1]) = fallback_content_extraction(arg[GenericSelector])
        /\ Len(ret[1]) <= FallbackCap

(* ============================ the title ================================ *)
\* the positions of the lines that are longer than 20 characters and contain
\* a title keyword
Qualifying(lines) ==
    {i \in 1..Len(lines) : "title_kw" \in lines[i].has /\ lines[i].len > TitleMinLen}

\* C18: extract_post_metadata_from_raw returns a title, an author and a
\* posted time for every line sequence; the title is the first 100 characters
\* of the first qualifying line among the first 5 lines, and "Untitled Post"
\* when none of the first 5 qualifies, whatever the lines from the sixth on are.
C18_TitleFromFirstFive ==
    ret # NoValue =>
        LET among == {i \in Qualifying(arg) : i <= TitleScanLines}
            title == ret[1].title
        IN  /\ DOMAIN ret[1] = {"title", "author", "posted_time"}
            /\ among = {} => title = UntitledPost
            /\ among # {} =>
                   \E i \in among :
                       /\ \A j \in among : i <= j
                       /\ title.id = arg[i].id
                       /\ title.len = Min(arg[i].len, TitleMaxLen)

\* the only qualifying line is the sixth: the title is the sentinel
C18_Witness ==
    /\ ret # NoValue
    /\ Len(arg) = 6
    /\ Qualifying(arg) = {6}
    /\ ret[1].title = UntitledPost

(* ============================ the formatter ============================ *)
Rules == <<"drop", "heading", "deadline", "section", "bullet", "link", "plain">>

\* the test of each rule, by itself
Matches(rule, line) ==
    CASE rule = "drop" -> "see_less" \in line.has \/ "middot" \in line.has
      [] rule = "heading" ->
             "title_kw" \in line.has /\ line.len > HeadingMinLen /\ line.len < HeadingMaxLen
      [] rule = "deadline" -> "deadline" \in line.has
      [] rule = "section" -> "section" \in line.has
      [] rule = "bullet" -> "bullet" \in line.has
      [] rule = "link" -> "http" \in line.has
      [] rule = "plain" -> TRUE

\* what each rule emits for a line
Rendering(rule, line) ==
    CASE rule = "drop" -> <<>>
      [] rule = "heading" -> <<Emit("## ", line, "")>>
      [] rule = "deadline" -> <<Emit("(!) DEADLINE: ", line, "")>>
      [] rule = "section" -> <<Emit("**", line, ":**")>>
      [] rule = "bullet" -> <<Emit("", line, "")>>
      [] rule = "link" -> <<Emit("(link) ", line, "")>>
      [] rule = "plain" -> <<Emit("", line, "")>>

\* the first rule, in the order of Rules, that the line matches
FirstRule(line) ==
    Rules[CHOOSE r \in 1..Len(Rules) :
              /\ Matches(Rules[r], line)
              /\ \A q \in 1..(r - 1) : ~Matches(Rules[q], line)]

RECURSIVE ByFirstRule(_)
ByFirstRule(lines) ==
    IF lines = <<>> THEN <<>>
    ELSE Rendering(FirstRule(Head(lines)), Head(lines)) \o ByFirstRule(Tail(lines))

\* C19: the formatted content is, line by line and in input order, what the
\* first matching rule of the order drop, heading, deadline, labelled section,
\* bullet, link, plain emits for the line; no line gives more than one output
\* line.
C19_FirstMatchingRule ==
    ret # NoValue =>
        /\ ret[1] = ByFirstRule(arg)
        /\ Len(ret[1]) <= Len(arg)

\* a line that is both a title and a deadline, a dropped line, and a bullet
\* that is also a link: a heading and the bullet unchanged
C19_Witness ==
    /\ ret # NoValue
    /\ arg = <<L_deadline, L_seeless, L_bullet_link>>
    /\ ret[1] = <<Emit("## ", L_deadline, ""), Emit("", L_bullet_link, "")>>

(* =========================== halting and the feed ====================== *)
\* C20 as stated: when a run over the feed halts at a duplicate block k, every
\* block after k that has at least 3 meaningful lines is in the store.
C20_AsStated ==
    \A k \in Iterated :
        outcomes[k].result = "duplicate" =>
            \A j \in (k + 1)..Len(content_elements) :
                CountMeaningful(ElementText(j)) >= MinContentLines
                    => post_exists(posts, HashOf(j))

(* ======================== the scroll/expand loop ======================= *)
\* one iteration of the while loop has been made
Iteration == pc = "scroll_loop" /\ pc' = "scroll_loop"

\* C21 as stated: an iteration that activates a control leaves the stall
\* count at 0 for the next iteration, and the stall count grows only in an
\* iteration that found the position unchanged and activated no control.
C21_AsStated ==
    [][Iteration =>
          /\ scroll'.clicked_buttons # scroll.clicked_buttons
                 => scroll'.scroll_attempts = 0
          /\ scroll'.scroll_attempts > scroll.scroll_attempts
                 => /\ scroll'.last_scroll_top = scroll.last_scroll_top
                    /\ scroll'.clicked_buttons = scroll.clicked_buttons]_vars

\* C22: an iteration activates at most one control, however many entries of
\* the matchers' list are eligible.
C22_OneControlPerIteration ==
    [][Iteration =>
          /\ Cardinality(scroll'.clicked_buttons \ scroll.clicked_buttons) <= 1
          /\ scroll'.hits <= scroll.hits + 1]_vars

\* the first iteration met two eligible entries and activated one control
C22_Witness ==
    /\ pc = "scroll_loop"
    /\ scroll.steps = 1
    /\ scroll.offered = 2
    /\ scroll.hits = 1
    /\ Cardinality(scroll.clicked_buttons) = 1

\* C23: every identity in the clicked set is that of a visible and enabled
\* control, and the pass has made exactly as many activations as the clicked
\* set has identities: each activation was of an identity not yet in the set
\* and put it there, so none is activated twice.
C23_ActivatedOnce ==
    pc = "scroll_loop" =>
        /\ scroll.hits = Cardinality(scroll.clicked_buttons)
        /\ \A id \in scroll.clicked_buttons :
               \E b \in Controls : b.id = id /\ b.displayed /\ b.enabled /\ b.label

\* four iterations were made and two controls activated, each once
C23_Witness ==
    /\ pc = "scroll_loop"
    /\ scroll.steps = 4
    /\ scroll.hits = 2
    /\ scroll.clicked_buttons = {Btn_a.id, Btn_b.id}

\* C24: on a page with finitely many control identities whose position
\* changes finitely often, the iterations made never exceed 5 times the
\* position changes plus the identities activated plus one, and the loader
\* ends (it returns, or a script call raises), also when the clicks of a
\* control that is offered again and again keep failing.
C24_LoaderTerminates ==
    /\ [](pc = "scroll_loop" =>
              scroll.steps <= max_attempts
                                  * (scroll.moves + Cardinality(scroll.clicked_buttons) + 1))
    /\ <>(pc \in {"select", "except"})

\* the position changed as often as it can, both working controls were
\* activated, the latest iteration met a control whose clicks fail, and the
\* loop condition is false
C24_Witness ==
    /\ pc = "scroll_loop"
    /\ scroll.scroll_attempts = max_attempts
    /\ scroll.moves = MaxMoves
    /\ scroll.hits = 2
    /\ scroll.offered > 0
    /\ scroll.steps > 2 * max_attempts

(* ===================== what the extraction returns ===================== *)
RECURSIVE SavedTexts(_)
\* the raw texts of the first n elements whose outcome is saved, in order
SavedTexts(n) ==
    IF n = 0 THEN <<>>
    ELSE IF outcomes[n].result = "saved"
         THEN Append(SavedTexts(n - 1), ElementText(n))
         ELSE SavedTexts(n - 1)

\* C25: during the extraction and when it returns, new_posts holds exactly
\* the raw texts of the elements whose outcome is saved, in extraction order;
\* it is never longer than the processed count, which counts the elements
\* handed to process_single_post; an element whose stripped text has 50
\* characters or fewer is not counted and no store call is made for it.
C25_NewPostsAreSavedTexts ==
    pc \in {"loop", "stats"} =>
        /\ new_posts = SavedTexts(Len(outcomes))
        /\ Len(new_posts) <= processed_count
        /\ processed_count = Cardinality({i \in Iterated : Processed(i)})
        /\ \A i \in Iterated :
               text_len(ElementText(i)) <= MinTextLen
                   => ~Processed(i) /\ outcomes[i].calls = <<>>

\* the extraction returns after three elements: a text of exactly 50
\* characters was left out, one text was saved and one was not
C25_Witness ==
    /\ pc = "stats"
    /\ Len(outcomes) = 3
    /\ processed_count = 2
    /\ Len(new_posts) = 1
    /\ \E i \in Iterated :
           outcomes[i].result = "filtered" /\ text_len(ElementText(i)) = MinTextLen
    /\ \E i \in Iterated : outcomes[i].result = "saved"

====
